---- MODULE Spec2Model ----
(***************************************************************************)
(* Code Whisperer: the editor extension's query protocol.                  *)
(*                                                                         *)
(*   - the Transport Client (CodeWhispererApiClient) in its two builds:    *)
(*     the fetch build (AbortController timeout, port 8002) and the axios  *)
(*     build (axios timeout option, port 8000);                            *)
(*   - the host side (CodeWhispererWebviewProvider, the commands);         *)
(*   - the webview script (state, handleSubmit, handleMessage, ...).       *)
(*                                                                         *)
(* Strings are sequences of tokens, so that a template string such as      *)
(* `Request timeout after ${this.timeout}ms` is the sequence of its parts  *)
(* and "the message includes the duration" is a membership test.           *)
(***************************************************************************)
EXTENDS Integers, Sequences, FiniteSets, TLC

(***************************************************************************)
(* Bounds of the model.                                                    *)
(***************************************************************************)
\* how many things the user does in a run: commands, clicks, keystrokes
MaxUserActions == 2
\* how many of them are analyze commands
MaxAnalyze == 1
\* a timeout configured instead of the default, in ms
ShortTimeout == 5000
\* how many things the user does in a run that opens, tests and closes panels
MaxPanelActions == 3
\* the longest document the context window is taken from, in lines
MaxLines == 7

(***************************************************************************)
(* Program constants.                                                      *)
(***************************************************************************)
\* constructor(baseUrl, timeout: number = 30000)
DefaultTimeout == 30000
\* fullContent.length < 10000
FullContentLimit == 10000
\* selectedText.trim().length < 5
MinSelection == 5
\* codeToAnalyze.trim().length < 3
MinCode == 3
\* currentLine - 2 / currentLine + 2
ContextLines == 2

Builds == {"fetch", "axios"}

\* new CodeWhispererApiClient('http://localhost:8002') / (... 8000)
SingletonBaseUrl(b) == IF b = "fetch" THEN "http://localhost:8002" ELSE "http://localhost:8000"

\* the base URLs the client is configured with
BaseUrls == {"http://localhost:8002", "http://localhost:8000", "http://backend:9000"}

\* undefined, where a string is expected (a missing field of a payload)
Undefined == <<"<undefined>">>

\* undefined, where a code text is expected
UndefinedText == <<[c |-> "<undefined>", n |-> 0]>>

\* an array-valued field: the array, or undefined
Array(items) == [t |-> "array", items |-> items]
UndefinedValue == [t |-> "undefined"]

\* JavaScript truthiness of a string-valued field: neither undefined nor ''
Truthy(s) == s # Undefined /\ s # <<>>

\* a || b || c on string-valued fields
FirstTruthy(a, b, c) == IF Truthy(a) THEN a ELSE IF Truthy(b) THEN b ELSE c

\* the token t occurs in the string s
Includes(s, t) == \E i \in 1..Len(s) : s[i] = t

(***************************************************************************)
(* What the network and the server can do to one HTTP exchange.            *)
(***************************************************************************)
\* HTTP statuses the server answers with, and their status texts
Statuses == {200, 500}

StatusText(s) == IF s = 200 THEN <<"OK">> ELSE <<"Internal Server Error">>

\* response.ok: the status is in the range 200-299
IsOk(s) == s >= 200 /\ s <= 299

\* a body that is not JSON
RawBody == [shape |-> "raw", raw |-> <<"<html>">>]

\* a body that never arrives whole: the connection breaks while it is read
BrokenBody == [shape |-> "cut"]

\* the string fields an error payload may carry or leave out
ErrorFields == {Undefined, <<>>, <<"x">>}
MessageFields == {Undefined, <<>>, <<"Server exploded">>}

\* error payloads {error, message}: every combination of the two fields
ErrorBodies ==
    {[shape |-> "error", error |-> e, message |-> m] : e \in ErrorFields, m \in MessageFields}

\* a health payload {status, service, version}
HealthBody == [shape |-> "health", status |-> <<"healthy">>, version |-> <<"1.0.0">>]

\* a health payload of a service that answers but reports itself unhealthy
DegradedHealthBody == [shape |-> "health", status |-> <<"unhealthy">>, version |-> <<"1.0.0">>]

\* a suggestion {title, description, confidence}; confidences are in hundredths
Suggestion(title, confidence) == [title |-> title, confidence |-> confidence]

\* a QueryResponse payload echoing query type qt, with the given suggestions
\* field (an array, or undefined when the server leaves it out)
QueryBody(qt, suggestions) ==
    [shape |-> "query", query_id |-> <<"q-1">>, query_type |-> qt,
     explanation |-> <<"It adds.">>, suggestions |-> suggestions,
     code_examples |-> Array(<<>>), confidence |-> 90, processing_time_ms |-> 120]

\* the query types a server echoes
EchoedTypes == {<<"explain">>, <<"debug">>}

\* the QueryResponse payloads a server sends: well-formed ones, and one that
\* leaves out the suggestions field
QueryBodies ==
    {QueryBody(qt, Array(<<Suggestion(<<"Use sum()">>, 80)>>)) : qt \in EchoedTypes}
    \cup {QueryBody(<<"explain">>, UndefinedValue)}

\* QueryResponse payloads of a server that does not keep to the schema: a
\* confidence above 1 or below 0, a suggestion's confidence above 1, the
\* code_examples field left out
OffSchemaBodies ==
    LET body == QueryBody(<<"explain">>, Array(<<Suggestion(<<"Use sum()">>, 80)>>)) IN
    { [body EXCEPT !.confidence = 150],
      [body EXCEPT !.confidence = -10],
      [body EXCEPT !.suggestions = Array(<<Suggestion(<<"Use sum()">>, 120)>>)],
      [body EXCEPT !.code_examples = UndefinedValue] }

\* the bodies a server may send with status s to operation op
BodiesFor(op, s) ==
    IF ~IsOk(s) THEN ErrorBodies \cup {RawBody}
    ELSE IF op = "query" THEN QueryBodies \cup {RawBody}
    ELSE {HealthBody, DegradedHealthBody, RawBody}

\* the outcome of an exchange as the client sees it
NetworkFailure == [kind |-> "network"]
TimedOut == [kind |-> "timeout"]
Responded(s, b) == [kind |-> "response", status |-> s, body |-> b]
\* the response head arrived with status s, then the connection broke
BodyCut(s) == [kind |-> "cut", status |-> s, body |-> BrokenBody]

(***************************************************************************)
(* Errors and promise results.                                             *)
(***************************************************************************)
\* new Error(message): name, message and the stack derived from them
MkError(name, message) ==
    [name |-> name, message |-> message,
     stack |-> <<name, ": ">> \o message \o <<"\n    at ">>]

Resolved(v) == [ok |-> TRUE, value |-> v]
Rejected(e) == [ok |-> FALSE, error |-> e]

\* `HTTP ${response.status}: ${response.statusText}`
HttpMessage(s) == <<"HTTP ", ToString(s), ": ">> \o StatusText(s)

\* `Request timeout after ${this.timeout}ms`
TimeoutMessage(t) == <<"Request timeout after ", ToString(t), "ms">>

NoResponseMessage == <<"No response from server. Please check if the backend is running.">>

(***************************************************************************)
(* The Transport Client: CodeWhispererApiClient.                           *)
(* Each operation is given as the promise result it settles with, as a     *)
(* function of the build, of this.timeout and of the exchange's outcome.   *)
(***************************************************************************)
\* null, as healthCheck returns it
Null == [shape |-> "null"]

\* fetch build, makeRequest: the promise of fetch(); an abort becomes the
\* timeout error, any other rejection is rethrown as it is
MakeRequest(t, wire) ==
    CASE wire.kind = "timeout" -> Rejected(MkError("Error", TimeoutMessage(t)))
      [] wire.kind = "network" -> Rejected(MkError("TypeError", <<"fetch failed">>))
      [] OTHER -> Resolved(wire)

\* response.json(): rejects on a body that is not JSON, with the SyntaxError
\* of JSON.parse (the wording is the engine's: this is V8's since node 20,
\* which quotes the token and the text), and on a body cut short by a broken
\* connection, with the TypeError of the fetch implementation
ResponseJson(body) ==
    CASE body.shape = "raw" ->
           Rejected(MkError("SyntaxError",
                            <<"Unexpected token '<', \"">> \o body.raw \o <<"\" is not valid JSON">>))
      [] body.shape = "cut" -> Rejected(MkError("TypeError", <<"terminated">>))
      [] OTHER -> Resolved(body)

\* response.json().catch(() => ({error: 'Unknown error', message: 'Failed to parse error response'}))
ErrorDataFetch(body) ==
    IF ResponseJson(body).ok THEN body
    ELSE [shape |-> "error", error |-> <<"Unknown error">>,
          message |-> <<"Failed to parse error response">>]

\* a variant of ErrorText that prefers the error field to the message
ErrorTextErrorFirst(errorData, status) ==
    FirstTruthy(errorData.error, errorData.message, HttpMessage(status))

\* a variant of ErrorText that never falls back to the error field
ErrorTextMessageOnly(errorData, status) ==
    IF Truthy(errorData.message) THEN errorData.message ELSE HttpMessage(status)

\* errorData.message || errorData.error || `HTTP ${status}: ${statusText}`
ErrorText(errorData, status) ==
    FirstTruthy(errorData.message, errorData.error, HttpMessage(status))

\* handleApiError: an Error instance is returned as it is
HandleApiError(e) == e

\* fetch build, query
QueryFetch(t, wire) ==
    LET r == MakeRequest(t, wire) IN
    IF ~r.ok THEN Rejected(HandleApiError(r.error))
    ELSE IF ~IsOk(wire.status)
         THEN Rejected(HandleApiError(
                  MkError("Error", ErrorText(ErrorDataFetch(wire.body), wire.status))))
         ELSE LET j == ResponseJson(wire.body) IN
              IF j.ok THEN Resolved(j.value) ELSE Rejected(HandleApiError(j.error))

\* fetch build, healthCheck: everything thrown inside the try becomes null
HealthCheckFetch(t, wire) ==
    LET r == MakeRequest(t, wire) IN
    IF ~r.ok THEN Resolved(Null)
    ELSE IF IsOk(wire.status)
         THEN LET j == ResponseJson(wire.body) IN
              IF j.ok THEN Resolved(j.value) ELSE Resolved(Null)
         ELSE Resolved(Null)

\* axios build: response.data; axios leaves a body it cannot parse as the
\* string it received
AxiosData(body) == body

\* errorData?.message and errorData?.error: undefined on a string
AxiosField(data, f) == IF data.shape = "error" THEN data[f] ELSE Undefined

\* axios build, handleAxiosError: error.response / error.request / else
HandleAxiosError(wire) ==
    IF wire.kind = "response"
    THEN LET data == AxiosData(wire.body) IN
         MkError("Error", FirstTruthy(AxiosField(data, "message"), AxiosField(data, "error"),
                                      HttpMessage(wire.status)))
    ELSE MkError("Error", NoResponseMessage)

\* axios build, query: axios rejects unless the status is 2xx
QueryAxios(t, wire) ==
    IF wire.kind = "response" /\ IsOk(wire.status)
    THEN Resolved(AxiosData(wire.body))
    ELSE Rejected(HandleAxiosError(wire))

\* axios build, healthCheck
HealthCheckAxios(t, wire) ==
    IF wire.kind = "response" /\ IsOk(wire.status)
    THEN Resolved(AxiosData(wire.body))
    ELSE Resolved(Null)

\* apiClient.query / apiClient.healthCheck of the build in use
Query(b, t, wire) == IF b = "fetch" THEN QueryFetch(t, wire) ELSE QueryAxios(t, wire)

\* a variant of healthCheck without its catch: a failure is thrown, as query
\* throws it
HealthCheckThrows(b, t, wire) == Query(b, t, wire)

HealthCheck(b, t, wire) ==
    IF b = "fetch" THEN HealthCheckFetch(t, wire) ELSE HealthCheckAxios(t, wire)

\* a boolean, as testConnection returns it
Boolean(b) == [shape |-> "boolean", value |-> b]

\* getStatus: the fetch build throws the generic HTTP message on a non-2xx
\* status without reading the body; the axios build goes through handleAxiosError
GetStatus(b, t, wire) ==
    IF b = "axios" THEN QueryAxios(t, wire)
    ELSE LET r == MakeRequest(t, wire) IN
         IF ~r.ok THEN Rejected(HandleApiError(r.error))
         ELSE IF ~IsOk(wire.status)
              THEN Rejected(HandleApiError(MkError("Error", HttpMessage(wire.status))))
              ELSE LET j == ResponseJson(wire.body) IN
                   IF j.ok THEN Resolved(j.value) ELSE Rejected(HandleApiError(j.error))

\* testConnection: response.ok (fetch), response.status === 200 (axios),
\* false on everything thrown
TestConnection(b, t, wire) ==
    IF wire.kind # "response" THEN Resolved(Boolean(FALSE))
    ELSE IF b = "fetch" THEN Resolved(Boolean(IsOk(wire.status)))
    ELSE Resolved(Boolean(wire.status = 200))

\* the operations of the client other than query and healthCheck; ingest
\* handles its response as query does
DirectOps == {"ingest", "status", "connection"}

\* the promise result of operation op
ClientResult(op, b, t, wire) ==
    CASE op = "health" -> HealthCheck(b, t, wire)
      [] op = "status" -> GetStatus(b, t, wire)
      [] op = "connection" -> TestConnection(b, t, wire)
      [] OTHER -> Query(b, t, wire)

\* `if (health)`: null is falsy, an object or a non-empty string is truthy
Present(v) == v # Null

(***************************************************************************)
(* Code text. A text is a sequence of runs [c, n]: n >= 1 copies of the    *)
(* character c, so that a file of 15000 characters is one run.             *)
(***************************************************************************)
Chars(c, n) == <<[c |-> c, n |-> n]>>

Newline == Chars("\n", 1)

RECURSIVE TextLen(_)
\* text.length
TextLen(t) == IF t = <<>> THEN 0 ELSE Head(t).n + TextLen(Tail(t))

IsSpace(r) == r.c \in {" ", "\n"}

RECURSIVE TrimStart(_)
TrimStart(t) == IF t # <<>> /\ IsSpace(Head(t)) THEN TrimStart(Tail(t)) ELSE t

RECURSIVE TrimEnd(_)
TrimEnd(t) ==
    IF t # <<>> /\ IsSpace(t[Len(t)]) THEN TrimEnd(SubSeq(t, 1, Len(t) - 1)) ELSE t

\* text.trim()
Trim(t) == TrimEnd(TrimStart(t))

RECURSIVE JoinLines(_, _, _)
\* the text of lines a..b (0-based, inclusive) of a document, joined by "\n"
JoinLines(lines, a, b) ==
    IF a > b THEN <<>>
    ELSE IF a = b THEN lines[a + 1]
    ELSE lines[a + 1] \o Newline \o JoinLines(lines, a + 1, b)

Max(a, b) == IF a >= b THEN a ELSE b
Min(a, b) == IF a <= b THEN a ELSE b

(***************************************************************************)
(* The editor surface: vscode.window.activeTextEditor.                     *)
(***************************************************************************)
NoEditor == [open |-> FALSE]

\* an editor on a document with the given lines, selection text and cursor line
Editor(file, lang, lines, selected, cursor) ==
    [open |-> TRUE, fileName |-> file, languageId |-> lang, lines |-> lines,
     selected |-> selected, cursor |-> cursor]

\* editor.document.getText()
FullContent(ed) == JoinLines(ed.lines, 0, Len(ed.lines) - 1)

\* path.basename(fileName): the last segment of the path
Basename(file) == IF file = <<>> THEN <<>> ELSE <<file[Len(file)]>>

\* the editors a query is handled with
Editors ==
    { NoEditor,
      \* a selection of 8 characters
      Editor(<<"src", "a.py">>, <<"python">>, <<Chars("x", 8), Chars("y", 3)>>, Chars("x", 8), 0),
      \* no selection, the cursor in code
      Editor(<<"src", "a.py">>, <<"python">>, <<Chars("x", 8), Chars("y", 3)>>, <<>>, 1),
      \* no selection, the cursor in a blank file
      Editor(<<"b.js">>, <<"javascript">>, <<<<>>, Chars(" ", 2), <<>>>>, <<>>, 1) }

\* a document of six lines of code, of 3 to 8 characters
SixLines == <<Chars("a", 3), Chars("b", 4), Chars("c", 5), Chars("d", 6), Chars("e", 7), Chars("f", 8)>>

\* a line that is a word of n characters between two blanks on each side
Padded(c, n) == Chars(" ", 2) \o Chars(c, n) \o Chars(" ", 2)

\* the editors handleQuery is exercised with: selections around the limit of
\* 5, code around the limit of 3, with and without surrounding white space,
\* cursors at the edges of a document, documents around the limit of 10000
HandledEditors ==
    { NoEditor,
      Editor(<<"a.py">>, <<"python">>, <<Chars("x", 5), Chars("b", 4)>>, Chars("x", 5), 0),
      Editor(<<"a.py">>, <<"python">>, <<Chars("x", 4), Chars("b", 4)>>, Chars("x", 4), 0),
      Editor(<<"a.py">>, <<"python">>, <<Padded("x", 3), Chars("b", 4)>>, Padded("x", 3), 0),
      Editor(<<"a.py">>, <<"python">>, <<Padded("x", 5), Chars("b", 4)>>, Padded("x", 5), 0),
      Editor(<<"src", "six.ts">>, <<"typescript">>, SixLines, <<>>, 0),
      Editor(<<"src", "six.ts">>, <<"typescript">>, SixLines, <<>>, 3),
      Editor(<<"src", "six.ts">>, <<"typescript">>, SixLines, <<>>, 5),
      Editor(<<"big.js">>, <<"javascript">>, <<Chars("y", 9999)>>, Chars("y", 8), 0),
      Editor(<<"big.js">>, <<"javascript">>, <<Chars("y", 10000)>>, Chars("y", 8), 0),
      Editor(<<"big.js">>, <<"javascript">>, <<Chars("y", 15000)>>, Chars("y", 8), 0),
      Editor(<<"t.py">>, <<"python">>, <<Chars("a", 2)>>, <<>>, 0),
      Editor(<<"t.py">>, <<"python">>, <<Chars("a", 3)>>, <<>>, 0),
      Editor(<<"t.py">>, <<"python">>, <<Padded("z", 2)>>, <<>>, 0),
      Editor(<<"b.js">>, <<"javascript">>, <<<<>>, Chars(" ", 2), <<>>>>, <<>>, 1),
      \* a selection dragged from the start of line 0 down to line 3, over
      \* three characters of code and the blank lines below them; the cursor
      \* is the end of the selection
      Editor(<<"gap.py">>, <<"python">>, <<Chars("a", 3), <<>>, <<>>, <<>>>>,
             Chars("a", 3) \o Newline \o Newline \o Newline, 3) }

\* documents of 1 to MaxLines lines of code, line i having i + 2 characters,
\* with no selection and the cursor on each of their lines
WindowEditors ==
    UNION { { Editor(<<"w.py">>, <<"python">>, [i \in 1..n |-> Chars("k", i + 2)], <<>>, c) :
                  c \in 0..(n - 1) } : n \in 1..MaxLines }

(***************************************************************************)
(* Messages between the webview and the host.                              *)
(***************************************************************************)
QueryTypes == {<<"explain">>, <<"debug">>}

Explain == <<"explain">>

\* the webview's {type: 'query', query, queryType, timestamp}
QueryMessage(query, queryType) == [type |-> "query", query |-> query, queryType |-> queryType]

TestConnectionMessage == [type |-> "testConnection"]

\* the query messages handleQuery accepts: {query, queryType?}, the query type
\* given, empty or left out
PostedMessages ==
    {QueryMessage(<<"q">>, t) : t \in {Undefined, <<>>, <<"explain">>, <<"debug">>}}

\* the host's {type: 'response', ...}
ResponseEvent(queryId, explanation, suggestions, codeExamples, confidence, processingTime, queryType) ==
    [type |-> "response", queryId |-> queryId, explanation |-> explanation,
     suggestions |-> suggestions, codeExamples |-> codeExamples,
     confidence |-> confidence, processingTime |-> processingTime, queryType |-> queryType]

\* the host's {type: 'error', error, details}
ErrorEvent(error, details) == [type |-> "error", error |-> error, details |-> details]

\* the host's {type: 'connectionStatus', status, version, error}
StatusEvent(status, version, error) ==
    [type |-> "connectionStatus", status |-> status, version |-> version, error |-> error]

\* the query text an analyze command has the webview submit
AnalyzeQuery == <<"Analyze this code and explain what it does">>

\* the host's {type: 'autoAnalyze', code, fileName, defaultQuery}
AutoAnalyzeEvent(code, file) ==
    [type |-> "autoAnalyze", code |-> code, fileName |-> file,
     defaultQuery |-> AnalyzeQuery]

\* a variant of TypeOrExplain without the default
TypeAsGiven(queryType) == queryType

\* message.queryType || 'explain'
TypeOrExplain(queryType) == IF Truthy(queryType) THEN queryType ELSE Explain

\* a variant of NoEditorEvent that reports the missing editor as an error
NoEditorAsError(msg) == ErrorEvent(<<"No active editor found">>, Undefined)

\* the canned guidance published when no editor is open
NoEditorEvent(msg) ==
    ResponseEvent(<<"no-editor">>, <<"**No Code File Open**">>,
                  Array(<<Suggestion(<<"Open a Code File">>, 100), Suggestion(<<"Create a New File">>, 100)>>),
                  Array(<<<<"// Example JavaScript function">>, <<"# Example Python function">>>>),
                  100, 1, TypeOrExplain(msg.queryType))

\* the canned guidance published when there is no code to analyze
NoCodeEvent(msg, ed) ==
    ResponseEvent(<<"no-code-selection">>,
                  <<"**No Code Selected**">> \o ed.languageId \o Basename(ed.fileName),
                  Array(<<Suggestion(<<"Select Code to Analyze">>, 100), Suggestion(<<"Place Cursor in Code">>, 100)>>),
                  Array(<<>>), 100, 1, TypeOrExplain(msg.queryType))

\* the request of the codewhisperer.test command
TestRequest ==
    [query_type |-> Explain,
     query_text |-> <<"What does this code do?">>,
     code_context |-> [file_path |-> <<"test.py">>, language |-> <<"python">>,
                       selected_code |-> Chars("d", 37), full_file_content |-> <<>>],
     include_examples |-> TRUE]

(***************************************************************************)
(* handleQuery up to its network call.                                     *)
(***************************************************************************)
\* a variant of StartLine that takes the window from the top of the document
StartLineFromTop(ed) == 0

\* startLine = Math.max(0, currentLine - 2)
StartLine(ed) == Max(0, ed.cursor - ContextLines)

\* endLine = Math.min(editor.document.lineCount - 1, currentLine + 2)
EndLine(ed) == Min(Len(ed.lines) - 1, ed.cursor + ContextLines)

\* the context window: the text from the start of startLine to the end of endLine
ContextWindow(ed) == JoinLines(ed.lines, StartLine(ed), EndLine(ed))

\* a variant of NeedsFallback that measures the selection without trimming it
NeedsFallbackUntrimmed(selected) == selected = <<>> \/ TextLen(selected) < MinSelection

\* !selectedText || selectedText.trim().length < 5
NeedsFallback(selected) == selected = <<>> \/ TextLen(Trim(selected)) < MinSelection

\* codeToAnalyze: the selection, or the context window around the cursor
CodeToAnalyze(ed) == IF NeedsFallback(ed.selected) THEN ContextWindow(ed) ELSE ed.selected

\* a variant of TooLittleCode that measures the code without trimming it
TooLittleCodeUntrimmed(code) == code = <<>> \/ TextLen(code) < MinCode

\* !codeToAnalyze || codeToAnalyze.trim().length < 3
TooLittleCode(code) == code = <<>> \/ TextLen(Trim(code)) < MinCode

\* fullContent.length < 10000 ? fullContent : undefined
FullFileContent(content) == IF TextLen(content) < FullContentLimit THEN content ELSE UndefinedText

\* the QueryRequest handleQuery builds
BuildRequest(msg, ed) ==
    [query_type |-> TypeOrExplain(msg.queryType),
     query_text |-> msg.query,
     code_context |-> [file_path |-> Basename(ed.fileName),
                       language |-> ed.languageId,
                       selected_code |-> CodeToAnalyze(ed),
                       full_file_content |-> FullFileContent(FullContent(ed))],
     include_examples |-> TRUE]

\* what handleQuery does before any await: publish a canned response, or
\* call apiClient.query with a request
QueryPlan(msg, ed) ==
    IF ~ed.open THEN [dispatch |-> FALSE, event |-> NoEditorEvent(msg)]
    ELSE IF TooLittleCode(CodeToAnalyze(ed)) THEN [dispatch |-> FALSE, event |-> NoCodeEvent(msg, ed)]
    ELSE [dispatch |-> TRUE, request |-> BuildRequest(msg, ed)]

\* response.suggestions: undefined when the payload leaves the field out or
\* is not a QueryResponse object at all (a string, in the axios build)
SuggestionsOf(data) == IF data.shape = "query" THEN data.suggestions ELSE UndefinedValue

\* handleQuery after apiClient.query settled with r: the event it publishes.
\* response.suggestions.length throws a TypeError when suggestions is undefined;
\* the catch turns every Error into {error: message, details: stack}
QueryEvent(r) ==
    IF r.ok
    THEN IF SuggestionsOf(r.value) = UndefinedValue
         THEN LET e == MkError("TypeError", <<"Cannot read properties of undefined (reading 'length')">>)
              IN ErrorEvent(e.message, e.stack)
         ELSE ResponseEvent(r.value.query_id, r.value.explanation, r.value.suggestions,
                            r.value.code_examples, r.value.confidence,
                            r.value.processing_time_ms, r.value.query_type)
    ELSE ErrorEvent(r.error.message, r.error.stack)

\* testBackendConnection after apiClient.healthCheck settled with r
HealthEvent(r) ==
    IF ~r.ok THEN StatusEvent("error", Undefined, r.error.message)
    ELSE IF Present(r.value)
         THEN StatusEvent("connected",
                          IF r.value.shape = "health" THEN r.value.version ELSE Undefined,
                          Undefined)
         ELSE StatusEvent("disconnected", Undefined, <<"Health check failed">>)

(***************************************************************************)
(* The webview script: its state object and the DOM it drives.             *)
(***************************************************************************)
\* the texts typed into the query box: tokens, " " being white space
Inputs == {<<" ">>, <<" ", "q">>}

RECURSIVE TrimStrStart(_)
TrimStrStart(s) == IF s # <<>> /\ Head(s) = " " THEN TrimStrStart(Tail(s)) ELSE s

RECURSIVE TrimStrEnd(_)
TrimStrEnd(s) ==
    IF s # <<>> /\ s[Len(s)] = " " THEN TrimStrEnd(SubSeq(s, 1, Len(s) - 1)) ELSE s

\* queryInput.value.trim()
TrimStr(s) == TrimStrEnd(TrimStrStart(s))

NoResponse == [type |-> "none"]

NothingShown == [kind |-> "none"]

\* the script's initial `state` and the DOM as the HTML gives it
InitialWebview ==
    [isLoading |-> FALSE, currentQuery |-> <<>>, currentQueryType |-> Explain,
     lastResponse |-> NoResponse, connectionStatus |-> "unknown",
     input |-> <<>>, select |-> Explain, submitDisabled |-> TRUE,
     \* the response area: the classes of #responseContainer, of
     \* #loadingIndicator and of #responseContent, and what #responseContent holds
     responseContainer |-> "hidden", loadingIndicator |-> "hidden",
     responseContent |-> "visible", content |-> NothingShown,
     statusLabel |-> <<"Checking connection...">>]

\* vscode.getState() before any setState
NothingSaved == [none |-> TRUE]

\* updateState: what vscode.setState is given
UpdateState(w) ==
    [query |-> w.currentQuery, queryType |-> w.currentQueryType, isLoading |-> w.isLoading,
     lastResponse |-> w.lastResponse, connectionStatus |-> w.connectionStatus]

\* updateSubmitButtonState
UpdateSubmitButtonState(w) ==
    LET hasText == Len(TrimStr(w.input)) > 0
        isConnected == w.connectionStatus = "connected"
    IN [w EXCEPT !.submitDisabled = ~hasText \/ w.isLoading \/ ~isConnected]

\* showError(errorMessage, details): the container is un-hidden and the
\* message put into #responseContent, with the details if they are not blank;
\* the loading indicator and the class of #responseContent stay as they are
ShowError(w, message, details) ==
    [w EXCEPT !.responseContainer = "visible",
              !.content = [kind |-> "error", message |-> message,
                           details |-> IF Truthy(details) /\ TrimStr(details) # <<>>
                                       THEN details ELSE Undefined]]

\* setLoadingState(loading)
SetLoadingState(w, loading) ==
    IF loading
    THEN \* showLoading()
         [w EXCEPT !.responseContainer = "visible", !.loadingIndicator = "visible",
                   !.responseContent = "hidden", !.submitDisabled = TRUE]
    ELSE \* hideLoading()
         UpdateSubmitButtonState([w EXCEPT !.loadingIndicator = "hidden",
                                           !.responseContent = "visible"])

\* the first guard of handleSubmit: `if (!query)`
SubmitHasNoQuery(w) == TrimStr(w.input) = <<>>

\* the second guard of handleSubmit: the connection gate
SubmitIsGated(w) == w.connectionStatus # "connected"

\* handleSubmit: the webview afterwards, and the messages it posts to the host
HandleSubmit(w) ==
    IF SubmitHasNoQuery(w)
    THEN [w |-> ShowError(w, <<"Please enter a query or question about your code.">>, Undefined),
          post |-> <<>>]
    ELSE IF SubmitIsGated(w)
    THEN [w |-> ShowError(w, <<"Backend connection is not available. Please check if the server is running on localhost:8002.">>, Undefined),
          post |-> <<>>]
    ELSE [w |-> SetLoadingState([w EXCEPT !.isLoading = TRUE,
                                          !.currentQuery = TrimStr(w.input),
                                          !.currentQueryType = w.select], TRUE),
          post |-> <<QueryMessage(TrimStr(w.input), w.select)>>]

\* a variant of handleClear that also ends the loading state, as a
\* cancellation would
HandleClearCancels(w) ==
    [UpdateSubmitButtonState([w EXCEPT !.input = <<>>, !.select = Explain,
                                       !.responseContainer = "hidden", !.isLoading = FALSE])
        EXCEPT !.currentQuery = <<>>, !.currentQueryType = Explain, !.lastResponse = NoResponse]

\* handleClear; hideResponse() hides the container and leaves what it holds
HandleClear(w) ==
    [UpdateSubmitButtonState([w EXCEPT !.input = <<>>, !.select = Explain,
                                       !.responseContainer = "hidden"])
        EXCEPT !.currentQuery = <<>>, !.currentQueryType = Explain, !.lastResponse = NoResponse]

\* a variant of setConnectionStatus that leaves the submit button as it is
SetConnectionStatusOnly(w, status, text) ==
    [w EXCEPT !.connectionStatus = status, !.statusLabel = text]

\* setConnectionStatus(status, text)
SetConnectionStatus(w, status, text) ==
    UpdateSubmitButtonState([w EXCEPT !.connectionStatus = status, !.statusLabel = text])

\* handleConnectionStatus
HandleConnectionStatus(w, m) ==
    CASE m.status = "connected" ->
           SetConnectionStatus(w, "connected",
               <<"Connected (v">> \o FirstTruthy(m.version, <<>>, <<"1.0">>) \o <<")">>)
      [] m.status = "disconnected" -> SetConnectionStatus(w, "disconnected", <<"Disconnected">>)
      [] m.status = "error" ->
           SetConnectionStatus(w, "error", <<"Connection Error: ">> \o m.error)
      [] OTHER -> SetConnectionStatus(w, "unknown", <<"Checking...">>)

\* handleQueryResponse
HandleQueryResponse(w, m) ==
    [SetLoadingState([w EXCEPT !.isLoading = FALSE, !.lastResponse = m], FALSE)
        EXCEPT !.responseContainer = "visible", !.content = [kind |-> "response"]]

\* a variant of handleError that also marks the connection as failed
HandleErrorDisconnects(w, m) ==
    ShowError(SetLoadingState([w EXCEPT !.isLoading = FALSE, !.connectionStatus = "error"], FALSE),
              FirstTruthy(m.error, <<>>, <<"An error occurred while processing your query.">>),
              m.details)

\* handleError
HandleError(w, m) ==
    ShowError(SetLoadingState([w EXCEPT !.isLoading = FALSE], FALSE),
              FirstTruthy(m.error, <<>>, <<"An error occurred while processing your query.">>),
              m.details)

\* handleAutoAnalyze: the webview afterwards, and whether it arms the
\* setTimeout(handleSubmit, 1000)
HandleAutoAnalyze(w, m) ==
    LET w1 == UpdateSubmitButtonState(
                  [w EXCEPT !.input = FirstTruthy(m.defaultQuery, <<>>,
                                          <<"Analyze this code and explain what it does">>),
                            !.select = Explain, !.currentQueryType = Explain])
        \* showInfo(...)
        w2 == [w1 EXCEPT !.responseContainer = "visible", !.content = [kind |-> "info"]]
    IN IF w2.connectionStatus = "connected"
       THEN [w |-> w2, arm |-> TRUE]
       ELSE [w |-> ShowError(w2, <<"Backend connection is not available. Please check if the server is running.">>, Undefined),
             arm |-> FALSE]

\* handleMessage: dispatch on message.type
HandleMessage(w, m) ==
    CASE m.type = "response" -> [w |-> HandleQueryResponse(w, m), arm |-> FALSE]
      [] m.type = "error" -> [w |-> HandleError(w, m), arm |-> FALSE]
      [] m.type = "connectionStatus" -> [w |-> HandleConnectionStatus(w, m), arm |-> FALSE]
      [] m.type = "autoAnalyze" -> HandleAutoAnalyze(w, m)
      [] OTHER -> [w |-> w, arm |-> FALSE]

\* the keys of the script's `state` object
StateKeys == {"isLoading", "currentQuery", "currentQueryType", "lastResponse", "connectionStatus"}

\* state = { ...state, ...previousState }: a key of state takes the value
\* saved under the same key; the keys saved under other names are added to
\* the object and read by nothing
Spread(w, previousState) ==
    [k \in DOMAIN w |-> IF k \in StateKeys /\ k \in DOMAIN previousState
                        THEN previousState[k] ELSE w[k]]

\* restoreState, in a webview whose script has just started
RestoreState(w, previousState) ==
    IF "none" \in DOMAIN previousState THEN w
    ELSE LET st == Spread(w, previousState) IN
         UpdateSubmitButtonState(
             [st EXCEPT !.input = IF Truthy(st.currentQuery) THEN st.currentQuery ELSE @,
                        !.select = IF Truthy(st.currentQueryType) THEN st.currentQueryType ELSE @,
                        !.responseContainer = IF st.lastResponse # NoResponse /\ ~st.isLoading
                                              THEN "visible" ELSE @,
                        !.content = IF st.lastResponse # NoResponse /\ ~st.isLoading
                                    THEN [kind |-> "response"] ELSE @])

(***************************************************************************)
(* The state.                                                              *)
(***************************************************************************)
VARIABLES
    budget,     \* how many things the user does in this run
    build,      \* which build of the client is installed: "fetch" or "axios"
    baseUrl,    \* apiClient.baseUrl
    timeout,    \* apiClient.timeout
    panel,      \* the provider's this.panel: 0 is undefined, else the panel's number
    panels,     \* panels created so far
    disposables, \* the provider's this.disposables: the listeners it registered
    platform,   \* the editor's side: the panels that are not disposed, and the
                \* listeners registered on them that are not disposed
    wv,         \* the webview of the panel: the script's state and DOM
    saved,      \* what the webview last gave vscode.setState
    w2h,        \* messages posted by the webview, not yet received by the host
    h2w,        \* messages posted by the host, not yet received by the webview
    calls,      \* the client's calls in flight
    started,    \* calls started so far (the next call's number)
    hostTimers, \* analyzeCode's pending setTimeout(..., 500) callbacks
    wvTimers,   \* handleAutoAnalyze's pending setTimeout(handleSubmit, 1000)
    last,       \* what the step just taken did: a submit, a dispatch, a settled call
    tally,      \* of handleQuery: messages received, calls made, events published;
                \* and, in the runs that observe them (tally.observed): the
                \* response published for the latest query that has one, the
                \* status published by the latest health check, the text captured
                \* by an analyze command whose query is not handled yet
    acted,      \* user actions so far
    analyzed    \* analyze commands so far

vars == <<budget, build, baseUrl, timeout, panel, panels, disposables, platform, wv, saved, w2h, h2w, calls, started,
          hostTimers, wvTimers, last, tally, acted, analyzed>>

NoEvent == [type |-> "none"]

NoRequest == [query_type |-> Undefined]

\* no query message
NoMessage == [type |-> "none"]

\* no query of this panel has a response yet
NoNewest == [id |-> 0, event |-> NoEvent]

\* no health check of this panel has published a status yet
NoHealth == [id |-> 0, status |-> "unknown"]

\* a step that neither submits, nor dispatches, nor settles anything
NoStep ==
    [submitted |-> FALSE, loadingBefore |-> FALSE,
     received |-> FALSE, message |-> NoMessage, editor |-> NoEditor,
     captured |-> UndefinedText,
     dispatched |-> FALSE, request |-> NoRequest, connAt |-> "unknown", by |-> "none",
     settled |-> FALSE, op |-> "none", owner |-> "none", wire |-> [kind |-> "none"],
     result |-> Resolved(Null), rejected |-> FALSE, event |-> NoEvent, panelThen |-> 0,
     panelAt |-> 0, disposeCalls |-> 0,
     timerMs |-> 0, timeoutThen |-> 0]

\* the extension once activated: the apiClient singleton of the build, no
\* panel; observed says whether the run keeps the records of tally
Constructed(observed) ==
    /\ build \in Builds
    /\ baseUrl = SingletonBaseUrl(build)
    /\ timeout = DefaultTimeout
    /\ panel = 0
    /\ panels = 0
    /\ disposables = <<>>
    /\ platform = [live |-> {}, listeners |-> {}]
    /\ wv = InitialWebview
    /\ saved = NothingSaved
    /\ w2h = <<>>
    /\ h2w = <<>>
    /\ calls = {}
    /\ started = 0
    /\ hostTimers = <<>>
    /\ wvTimers = 0
    /\ last = NoStep
    /\ tally = [received |-> 0, dispatched |-> 0, published |-> 0, unpublished |-> 0,
                observed |-> observed,
                newest |-> NoNewest, health |-> NoHealth, captured |-> UndefinedText]
    /\ acted = 0
    /\ analyzed = 0

Init == Constructed(FALSE) /\ budget = MaxUserActions

\* the same, keeping the records of tally
InitObserved == Constructed(TRUE) /\ budget = MaxUserActions

\* the user may still do something
MayAct == acted < budget

(***************************************************************************)
(* Calls in flight. makeRequest arms a timer for this.timeout and starts   *)
(* the request; the call then waits for the response head, then the body.  *)
(***************************************************************************)
\* a call of operation op started now on behalf of owner
NewCall(op, owner) ==
    [id |-> started + 1, op |-> op, owner |-> owner, phase |-> "head", status |-> 0,
     \* `${this.baseUrl}${endpoint}`: where the request is sent
     url |-> baseUrl,
     \* the query_type of the request the call carries, for a call of handleQuery
     queryType |-> Undefined,
     \* whether the call was made by a handler of handleWebviewMessage
     onMessage |-> FALSE,
     \* setTimeout(() => controller.abort(), this.timeout) / {timeout: this.timeout}
     armed |-> TRUE, timerMs |-> timeout,
     \* whether timerMs milliseconds have passed since the call started
     overdue |-> FALSE, panelAt |-> panel]

\* the step dispatched request through apiClient.query, on behalf of `by`;
\* connAt is what the gate of handleSubmit reads at that moment
Dispatching(step, by, request) ==
    [step EXCEPT !.dispatched = TRUE, !.request = request, !.by = by,
                 !.connAt = wv.connectionStatus]

\* this.panel?.webview.postMessage(m)
PostToWebview(q, m) == IF panel # 0 THEN Append(q, m) ELSE q

\* clearTimeout(timeoutId) once fetch() resolved: the fetch build disarms the
\* timer when the response head arrives; axios keeps its timeout to the end
ArmedAfterHead(b) == b # "fetch"

\* a variant of AfterQuery without the catch: a failure of apiClient.query
\* rejects the handler's promise and publishes nothing
AfterQueryNoCatch(r) == [event |-> QueryEvent(r), rejected |-> ~r.ok, retry |-> FALSE]

\* a variant of AfterQuery that calls apiClient.query again after a failure
AfterQueryRetry(r) == [event |-> QueryEvent(r), rejected |-> FALSE, retry |-> ~r.ok]

\* handleQuery once apiClient.query settled with r: the try/catch publishes
\* one event and the handler's promise resolves
AfterQuery(r) == [event |-> QueryEvent(r), rejected |-> FALSE, retry |-> FALSE]

\* the response on record once event is published, if at all, for the query
\* that was the id-th call of the client, or was handled after it
Newest(id, event) ==
    IF tally.observed /\ panel # 0 /\ event.type = "response" /\ id >= tally.newest.id
    THEN [id |-> id, event |-> event]
    ELSE tally.newest

\* the status on record once the id-th call of the client, a health check,
\* publishes event, if it does
NewestHealth(id, event) ==
    IF tally.observed /\ panel # 0 /\ id >= tally.health.id
    THEN [id |-> id, status |-> event.status]
    ELSE tally.health

\* the step in which call c settled with `wire`
Settling(c, wire, result, event, rejected) ==
    [NoStep EXCEPT !.settled = TRUE, !.op = c.op, !.owner = c.owner, !.wire = wire,
                   !.request = [query_type |-> c.queryType],
                   !.result = result, !.rejected = rejected,
                   !.event = IF panel # 0 THEN event ELSE NoEvent,
                   !.panelThen = panel, !.panelAt = c.panelAt,
                   !.timerMs = c.timerMs, !.timeoutThen = timeout]

\* the caller of a settled call resumes. wire is the outcome of the exchange.
Settle(c, wire) ==
    LET rq == Query(build, timeout, wire)
        rh == HealthCheck(build, timeout, wire)
        aq == AfterQuery(rq)
    IN
    CASE c.owner = "handleQuery" ->
           /\ h2w' = IF aq.rejected THEN h2w ELSE PostToWebview(h2w, aq.event)
           /\ calls' = (calls \ {c}) \cup
                  (IF aq.retry THEN {NewCall("query", "handleQuery")} ELSE {})
           /\ started' = IF aq.retry THEN started + 1 ELSE started
           /\ tally' = IF aq.retry THEN [tally EXCEPT !.dispatched = @ + 1]
                       ELSE IF panel # 0 /\ ~aq.rejected
                       THEN [tally EXCEPT !.published = @ + 1,
                                          !.newest = Newest(c.id, aq.event)]
                       ELSE [tally EXCEPT !.unpublished = @ + 1]
           /\ last' = Settling(c, wire, rq, IF aq.rejected THEN NoEvent ELSE aq.event,
                               aq.rejected)
      [] c.owner = "testBackendConnection" ->
           /\ h2w' = PostToWebview(h2w, HealthEvent(rh))
           /\ calls' = calls \ {c}
           /\ last' = Settling(c, wire, rh, HealthEvent(rh), FALSE)
           /\ tally' = [tally EXCEPT !.health = NewestHealth(c.id, HealthEvent(rh))]
           /\ UNCHANGED started
      [] c.owner = "testCommand" /\ c.op = "health" ->
           \* codewhisperer.test: `if (!health) return`, else the test query
           /\ calls' = (calls \ {c}) \cup
                  (IF rh.ok /\ Present(rh.value) THEN {NewCall("query", "testCommand")} ELSE {})
           /\ started' = IF rh.ok /\ Present(rh.value) THEN started + 1 ELSE started
           /\ last' = IF rh.ok /\ Present(rh.value)
                      THEN Dispatching(Settling(c, wire, rh, NoEvent, ~rh.ok),
                                       "testCommand", TestRequest)
                      ELSE Settling(c, wire, rh, NoEvent, ~rh.ok)
           /\ UNCHANGED <<h2w, tally>>
      [] c.owner = "caller" ->
           \* an operation called on the client directly: its promise settles
           /\ calls' = calls \ {c}
           /\ last' = Settling(c, wire, ClientResult(c.op, build, timeout, wire), NoEvent, FALSE)
           /\ UNCHANGED <<h2w, started, tally>>
      [] OTHER ->
           \* codewhisperer.test: the query settled; a notification is shown
           /\ calls' = calls \ {c}
           /\ last' = Settling(c, wire, rq, NoEvent, FALSE)
           /\ UNCHANGED <<h2w, started, tally>>

\* the body of a response whose body the client never reads
NoBody == [shape |-> "unread"]

\* the fetch build's healthCheck and getStatus do not read the body of a
\* non-2xx response, and its testConnection reads no body at all; every other
\* call reads the body
ReadsBody(b, op, s) ==
    ~(b = "fetch" /\ (op = "connection" \/ (op \in {"health", "status"} /\ ~IsOk(s))))

\* timerMs after the call started, its timer armed: the timer fires,
\* controller.abort() / axios' timeout
TimerFires(c) ==
    /\ c.armed
    /\ Settle(c, TimedOut)
    /\ UNCHANGED <<budget, disposables, platform, baseUrl, build, timeout, panel, panels, wv, saved, w2h, hostTimers, wvTimers,
                   acted, analyzed>>

\* timerMs after the call started, its timer cleared: nothing fires, and the
\* call goes on
Overruns(c) ==
    /\ ~c.armed
    /\ ~c.overdue
    /\ calls' = (calls \ {c}) \cup {[c EXCEPT !.overdue = TRUE]}
    /\ last' = NoStep
    /\ UNCHANGED <<budget, disposables, platform, baseUrl, build, timeout, panel, panels, wv, saved, w2h, h2w, started,
                   hostTimers, wvTimers, tally, acted, analyzed>>

\* no response reaches the client: connection refused, DNS failure, offline
NetworkFails(c) ==
    /\ c.phase = "head"
    /\ Settle(c, NetworkFailure)
    /\ UNCHANGED <<budget, disposables, platform, baseUrl, build, timeout, panel, panels, wv, saved, w2h, hostTimers, wvTimers,
                   acted, analyzed>>

\* the response head arrives with status s
HeadArrives(c, s) ==
    /\ c.phase = "head"
    /\ IF ReadsBody(build, c.op, s)
       THEN /\ calls' = (calls \ {c}) \cup
                   {[c EXCEPT !.phase = "body", !.status = s,
                              !.armed = c.armed /\ ArmedAfterHead(build)]}
            /\ last' = NoStep
            /\ UNCHANGED <<h2w, started, tally>>
       ELSE Settle(c, Responded(s, NoBody))
    /\ UNCHANGED <<budget, disposables, platform, baseUrl, build, timeout, panel, panels, wv, saved, w2h, hostTimers, wvTimers,
                   acted, analyzed>>

\* the response body arrives
BodyArrives(c, b) ==
    /\ c.phase = "body"
    /\ b \in BodiesFor(c.op, c.status)
    /\ Settle(c, Responded(c.status, b))
    /\ UNCHANGED <<budget, disposables, platform, baseUrl, build, timeout, panel, panels, wv, saved, w2h, hostTimers, wvTimers,
                   acted, analyzed>>

\* the connection breaks while the body is read
ConnectionBreaks(c) ==
    /\ c.phase = "body"
    /\ Settle(c, BodyCut(c.status))
    /\ UNCHANGED <<budget, disposables, platform, baseUrl, build, timeout, panel, panels, wv, saved, w2h, hostTimers, wvTimers,
                   acted, analyzed>>

\* the body of a 2xx answer to a query arrives, and does not keep to the schema
OffSchemaBodyArrives(c, b) ==
    /\ c.phase = "body"
    /\ c.op = "query"
    /\ IsOk(c.status)
    /\ b \in OffSchemaBodies
    /\ Settle(c, Responded(c.status, b))
    /\ UNCHANGED <<budget, disposables, platform, baseUrl, build, timeout, panel, panels, wv, saved, w2h, hostTimers, wvTimers,
                   acted, analyzed>>

(***************************************************************************)
(* The host: the provider and the commands.                                *)
(***************************************************************************)
\* the provider and the editor's side of it, as dispose() works on them;
\* calls counts the calls of dispose()
Provider ==
    [panel |-> panel, disposables |-> disposables, live |-> platform.live,
     listeners |-> platform.listeners, calls |-> 0]

\* a variant of dispose that clears this.panel and this.disposables and
\* disposes neither the panel nor the listeners
DisposeLeaks(d) == [d EXCEPT !.panel = 0, !.disposables = <<>>, !.calls = @ + 1]

RECURSIVE Dispose(_), PanelDispose(_, _)
\* dispose(): this.panel?.dispose(), this.panel = undefined, then every
\* disposable is popped and disposed
Dispose(d) ==
    LET d1 == IF d.panel # 0 THEN PanelDispose([d EXCEPT !.calls = @ + 1], d.panel)
              ELSE [d EXCEPT !.calls = @ + 1]
    IN [d1 EXCEPT !.panel = 0,
                  !.listeners = @ \ {d1.disposables[i] : i \in 1..Len(d1.disposables)},
                  !.disposables = <<>>]

\* WebviewPanel.dispose() of the editor, as the close button runs it too: a
\* panel already disposed is left alone; otherwise the panel is marked
\* disposed and its onDidDispose listener, () => this.dispose(), is called
PanelDispose(d, p) ==
    IF p \notin d.live THEN d
    ELSE IF [panel |-> p, event |-> "onDidDispose"] \in d.listeners
         THEN Dispose([d EXCEPT !.live = @ \ {p}])
         ELSE [d EXCEPT !.live = @ \ {p}]

\* the step in which the provider and the editor's side became d; a panel
\* that is disposed takes its webview with it
Disposing(d) ==
    /\ panel' = d.panel
    /\ disposables' = d.disposables
    /\ platform' = [live |-> d.live, listeners |-> d.listeners]
    /\ last' = [NoStep EXCEPT !.disposeCalls = IF tally.observed THEN d.calls ELSE 0]
    /\ IF d.live # platform.live
       THEN /\ wv' = InitialWebview
            /\ saved' = NothingSaved
            /\ w2h' = <<>>
            /\ h2w' = <<>>
            /\ wvTimers' = 0
            /\ tally' = [tally EXCEPT !.newest = NoNewest, !.health = NoHealth]
       ELSE UNCHANGED <<wv, saved, w2h, h2w, wvTimers, tally>>

\* createOrShow: reveal the panel, or create it, register the two listeners
\* and test the connection
CreateOrShow ==
    IF panel # 0
    THEN UNCHANGED <<panel, panels, disposables, platform, calls, started>>
    ELSE /\ panel' = panels + 1
         /\ panels' = panels + 1
         /\ disposables' = disposables \o
                <<[panel |-> panels + 1, event |-> "onDidReceiveMessage"],
                  [panel |-> panels + 1, event |-> "onDidDispose"]>>
         /\ platform' = [live |-> platform.live \cup {panels + 1},
                         listeners |-> platform.listeners \cup
                             {[panel |-> panels + 1, event |-> "onDidReceiveMessage"],
                              [panel |-> panels + 1, event |-> "onDidDispose"]}]
         /\ calls' = calls \cup {[NewCall("health", "testBackendConnection")
                                    EXCEPT !.panelAt = panels + 1]}
         /\ started' = started + 1

\* codewhisperer.start / codewhisperer.showInterface
CmdStart ==
    /\ MayAct
    /\ acted' = acted + 1
    /\ CreateOrShow
    /\ last' = NoStep
    /\ UNCHANGED <<budget, baseUrl, build, timeout, wv, saved, w2h, h2w, hostTimers, wvTimers, tally,
                   analyzed>>

\* what codewhisperer.analyzeSelection (whole = FALSE) and
\* codewhisperer.analyzeCode (whole = TRUE) capture from the editor
Captured(ed, whole) ==
    IF whole /\ ed.selected = <<>> THEN FullContent(ed) ELSE ed.selected

\* the analyze commands: createOrShow, then analyzeCode arms its timer
CmdAnalyze(ed, whole) ==
    /\ MayAct
    /\ analyzed < MaxAnalyze
    /\ ed.open
    /\ Trim(Captured(ed, whole)) # <<>>
    /\ acted' = acted + 1
    /\ analyzed' = analyzed + 1
    /\ CreateOrShow
    /\ hostTimers' = Append(hostTimers, AutoAnalyzeEvent(Captured(ed, whole), ed.fileName))
    /\ tally' = [tally EXCEPT !.captured = IF tally.observed THEN Captured(ed, whole) ELSE @]
    /\ last' = NoStep
    /\ UNCHANGED <<budget, baseUrl, build, timeout, wv, saved, w2h, h2w, wvTimers>>

\* analyzeCode's setTimeout callback: this.panel?.webview.postMessage(autoAnalyze)
HostTimerFires ==
    /\ hostTimers # <<>>
    /\ h2w' = PostToWebview(h2w, Head(hostTimers))
    /\ hostTimers' = Tail(hostTimers)
    /\ last' = NoStep
    /\ UNCHANGED <<budget, disposables, platform, baseUrl, build, timeout, panel, panels, wv, saved, w2h, calls, started,
                   wvTimers, tally, acted, analyzed>>

\* codewhisperer.test: healthCheck first, then the test query
CmdTest ==
    /\ MayAct
    /\ acted' = acted + 1
    /\ calls' = calls \cup {NewCall("health", "testCommand")}
    /\ started' = started + 1
    /\ last' = NoStep
    /\ UNCHANGED <<budget, disposables, platform, baseUrl, build, timeout, panel, panels, wv, saved, w2h, h2w, hostTimers,
                   wvTimers, tally, analyzed>>

\* apiClient.setTimeout(t)
SetTimeout(t) ==
    /\ MayAct
    /\ t # timeout
    /\ acted' = acted + 1
    /\ timeout' = t
    /\ last' = NoStep
    /\ UNCHANGED <<budget, disposables, platform, baseUrl, build, panel, panels, wv, saved, w2h, h2w, calls, started,
                   hostTimers, wvTimers, tally, analyzed>>

\* apiClient.setBaseUrl(u)
SetBaseUrl(u) ==
    /\ MayAct
    /\ u # baseUrl
    /\ acted' = acted + 1
    /\ baseUrl' = u
    /\ last' = NoStep
    /\ UNCHANGED <<budget, disposables, platform, build, timeout, panel, panels, wv, saved, w2h, h2w, calls,
                   started, hostTimers, wvTimers, tally, analyzed>>

\* a variant of ClientCalls that puts the timeout back to its default before
\* the call
ClientCallsWithDefault(op) ==
    /\ MayAct
    /\ acted' = acted + 1
    /\ timeout' = DefaultTimeout
    /\ calls' = calls \cup {[NewCall(op, "caller") EXCEPT !.timerMs = DefaultTimeout]}
    /\ started' = started + 1
    /\ last' = NoStep
    /\ UNCHANGED <<budget, disposables, platform, baseUrl, build, panel, panels, wv, saved, w2h, h2w,
                   hostTimers, wvTimers, tally, analyzed>>

\* apiClient.ingest / getStatus / testConnection called on the client
ClientCalls(op) ==
    /\ MayAct
    /\ acted' = acted + 1
    /\ calls' = calls \cup {NewCall(op, "caller")}
    /\ started' = started + 1
    /\ last' = NoStep
    /\ UNCHANGED <<budget, disposables, platform, baseUrl, build, timeout, panel, panels, wv, saved, w2h, h2w,
                   hostTimers, wvTimers, tally, analyzed>>

\* the user closes the panel: the editor disposes it, and onDidDispose runs
\* dispose(); the webview is gone
ClosePanel ==
    /\ MayAct
    /\ panel # 0
    /\ acted' = acted + 1
    /\ Disposing(PanelDispose(Provider, panel))
    /\ UNCHANGED <<budget, baseUrl, build, timeout, panels, calls, started, hostTimers, analyzed>>

\* deactivate(): webviewProvider.dispose()
Deactivate ==
    /\ MayAct
    /\ acted' = acted + 1
    /\ Disposing(Dispose(Provider))
    /\ UNCHANGED <<budget, baseUrl, build, timeout, panels, calls, started, hostTimers, analyzed>>

\* the captured text still waiting for its query once msg is handled
StillCaptured(msg) == IF msg.query = AnalyzeQuery THEN UndefinedText ELSE tally.captured

\* the step in which handleQuery received message msg with editor ed, and
\* the event it published before any await
Handling(msg, ed, event) ==
    [NoStep EXCEPT !.received = TRUE, !.message = msg, !.editor = ed,
                   !.captured = IF msg.query = AnalyzeQuery THEN tally.captured
                                ELSE UndefinedText,
                   !.event = IF panel # 0 THEN event ELSE NoEvent, !.panelThen = panel]

\* handleWebviewMessage, case 'query': handleQuery up to its await, with the
\* editor as it is at that moment
ReceiveQuery(ed) ==
    /\ w2h # <<>>
    /\ Head(w2h).type = "query"
    /\ w2h' = Tail(w2h)
    /\ LET plan == QueryPlan(Head(w2h), ed) IN
       IF plan.dispatch
       THEN /\ calls' = calls \cup {[NewCall("query", "handleQuery")
                                       EXCEPT !.queryType = plan.request.query_type,
                                              !.onMessage = TRUE]}
            /\ started' = started + 1
            /\ tally' = [tally EXCEPT !.received = @ + 1, !.dispatched = @ + 1,
                                      !.captured = StillCaptured(Head(w2h))]
            /\ last' = Dispatching(Handling(Head(w2h), ed, NoEvent), "handleQuery", plan.request)
            /\ UNCHANGED h2w
       ELSE /\ h2w' = PostToWebview(h2w, plan.event)
            /\ tally' = IF panel # 0
                        THEN [tally EXCEPT !.received = @ + 1, !.published = @ + 1,
                                           !.newest = Newest(started, plan.event),
                                           !.captured = StillCaptured(Head(w2h))]
                        ELSE [tally EXCEPT !.received = @ + 1, !.unpublished = @ + 1,
                                           !.captured = StillCaptured(Head(w2h))]
            /\ last' = Handling(Head(w2h), ed, plan.event)
            /\ UNCHANGED <<calls, started>>
    /\ UNCHANGED <<budget, disposables, platform, baseUrl, build, timeout, panel, panels, wv, saved, hostTimers, wvTimers,
                   acted, analyzed>>

\* a webview script posts the query message m
PostsQuery(m) ==
    /\ MayAct
    /\ panel # 0
    /\ acted' = acted + 1
    /\ w2h' = Append(w2h, m)
    /\ last' = NoStep
    /\ UNCHANGED <<budget, disposables, platform, baseUrl, build, timeout, panel, panels, wv, saved, h2w, calls, started,
                   hostTimers, wvTimers, tally, analyzed>>

\* handleWebviewMessage, case 'testConnection': testBackendConnection
ReceiveTestConnection ==
    /\ w2h # <<>>
    /\ Head(w2h).type = "testConnection"
    /\ w2h' = Tail(w2h)
    /\ calls' = calls \cup {[NewCall("health", "testBackendConnection")
                                EXCEPT !.onMessage = TRUE]}
    /\ started' = started + 1
    /\ last' = NoStep
    /\ UNCHANGED <<budget, disposables, platform, baseUrl, build, timeout, panel, panels, wv, saved, h2w, hostTimers, wvTimers,
                   tally, acted, analyzed>>

(***************************************************************************)
(* The webview: DOM events and messages from the host.                     *)
(***************************************************************************)
\* a handler of the webview that ends in handleSubmit, or is it: the webview
\* afterwards, and the message posted to the host, if any
SubmitStep ==
    /\ wv' = HandleSubmit(wv).w
    /\ saved' = IF HandleSubmit(wv).post # <<>> THEN UpdateState(HandleSubmit(wv).w) ELSE saved
    /\ w2h' = w2h \o HandleSubmit(wv).post
    /\ last' = IF HandleSubmit(wv).post # <<>>
               THEN [NoStep EXCEPT !.submitted = TRUE, !.loadingBefore = wv.isLoading]
               ELSE NoStep

\* the 'input' event of the query box
TypeInput(v) ==
    /\ MayAct
    /\ panel # 0
    /\ v # wv.input
    /\ acted' = acted + 1
    /\ wv' = UpdateSubmitButtonState([wv EXCEPT !.input = v])
    /\ last' = NoStep
    /\ UNCHANGED <<budget, disposables, platform, baseUrl, build, timeout, panel, panels, saved, w2h, h2w, calls, started,
                   hostTimers, wvTimers, tally, analyzed>>

\* the 'change' event of the query type select
SelectType(qt) ==
    /\ MayAct
    /\ panel # 0
    /\ qt # wv.select
    /\ acted' = acted + 1
    /\ wv' = [wv EXCEPT !.select = qt, !.currentQueryType = qt]
    /\ saved' = UpdateState(wv')
    /\ last' = NoStep
    /\ UNCHANGED <<budget, disposables, platform, baseUrl, build, timeout, panel, panels, w2h, h2w, calls, started, hostTimers,
                   wvTimers, tally, analyzed>>

\* a click on the submit button, which the DOM delivers only when enabled
ClickSubmit ==
    /\ MayAct
    /\ panel # 0
    /\ ~wv.submitDisabled
    /\ acted' = acted + 1
    /\ SubmitStep
    /\ UNCHANGED <<budget, disposables, platform, baseUrl, build, timeout, panel, panels, h2w, calls, started, hostTimers,
                   wvTimers, tally, analyzed>>

\* Ctrl+Enter in the query box
CtrlEnter ==
    /\ MayAct
    /\ panel # 0
    /\ acted' = acted + 1
    /\ SubmitStep
    /\ UNCHANGED <<budget, disposables, platform, baseUrl, build, timeout, panel, panels, h2w, calls, started, hostTimers,
                   wvTimers, tally, analyzed>>

\* handleAutoAnalyze's setTimeout(() => handleSubmit(), 1000) fires
WebviewTimerFires ==
    /\ wvTimers > 0
    /\ wvTimers' = wvTimers - 1
    /\ SubmitStep
    /\ UNCHANGED <<budget, disposables, platform, baseUrl, build, timeout, panel, panels, h2w, calls, started, hostTimers,
                   tally, acted, analyzed>>

\* a click on Clear
ClickClear ==
    /\ MayAct
    /\ panel # 0
    /\ acted' = acted + 1
    /\ wv' = HandleClear(wv)
    /\ saved' = UpdateState(wv')
    /\ last' = NoStep
    /\ UNCHANGED <<budget, disposables, platform, baseUrl, build, timeout, panel, panels, w2h, h2w, calls, started, hostTimers,
                   wvTimers, tally, analyzed>>

\* a click on Test Connection: handleTestConnection
ClickTestConnection ==
    /\ MayAct
    /\ panel # 0
    /\ acted' = acted + 1
    /\ wv' = SetConnectionStatus(wv, "testing", <<"Testing connection...">>)
    /\ saved' = UpdateState(wv')
    /\ w2h' = Append(w2h, TestConnectionMessage)
    /\ last' = NoStep
    /\ UNCHANGED <<budget, disposables, platform, baseUrl, build, timeout, panel, panels, h2w, calls, started, hostTimers,
                   wvTimers, tally, analyzed>>

\* the 'message' event: the webview receives the host's next message
WebviewReceives ==
    /\ h2w # <<>>
    /\ h2w' = Tail(h2w)
    /\ wv' = HandleMessage(wv, Head(h2w)).w
    /\ saved' = UpdateState(wv')
    /\ wvTimers' = IF HandleMessage(wv, Head(h2w)).arm THEN wvTimers + 1 ELSE wvTimers
    /\ last' = NoStep
    /\ UNCHANGED <<budget, disposables, platform, baseUrl, build, timeout, panel, panels, w2h, calls, started, hostTimers,
                   tally, acted, analyzed>>

\* the webview is reloaded (moved to another window, "Reload Webviews"): the
\* script starts again on the HTML of the panel, its timers are gone, and
\* DOMContentLoaded runs restoreState on what vscode.getState() returns
ReloadWebview ==
    /\ MayAct
    /\ panel # 0
    /\ acted' = acted + 1
    /\ wv' = RestoreState(InitialWebview, saved)
    /\ wvTimers' = 0
    /\ last' = NoStep
    /\ UNCHANGED <<budget, disposables, platform, baseUrl, build, timeout, panel, panels, saved, w2h, h2w, calls, started,
                   hostTimers, tally, analyzed>>

(***************************************************************************)
(* The specifications.                                                     *)
(***************************************************************************)
\* what the network and the server do to the calls in flight
Network ==
    \/ \E c \in calls : TimerFires(c)
    \/ \E c \in calls : Overruns(c)
    \/ \E c \in calls : NetworkFails(c)
    \/ \E c \in calls, s \in Statuses : HeadArrives(c, s)
    \/ \E c \in calls, b \in ErrorBodies \cup QueryBodies \cup {RawBody, HealthBody, DegradedHealthBody} :
          BodyArrives(c, b)
    \/ \E c \in calls : ConnectionBreaks(c)

\* the panel, its webview and the user in front of them
Next ==
    \/ CmdStart
    \/ \E ed \in Editors, whole \in BOOLEAN : CmdAnalyze(ed, whole)
    \/ ClosePanel
    \/ \E ed \in Editors : ReceiveQuery(ed)
    \/ ReceiveTestConnection
    \/ HostTimerFires
    \/ \E v \in Inputs : TypeInput(v)
    \/ \E qt \in QueryTypes : SelectType(qt)
    \/ ClickSubmit
    \/ CtrlEnter
    \/ ClickClear
    \/ ClickTestConnection
    \/ WebviewReceives
    \/ WebviewTimerFires
    \/ Network

Spec == Init /\ [][Next]_vars

\* the client driven directly: the codewhisperer.test command and the setters
NextClient ==
    \/ CmdTest
    \/ \E op \in DirectOps : ClientCalls(op)
    \/ \E t \in {DefaultTimeout, ShortTimeout} : SetTimeout(t)
    \/ \E u \in BaseUrls : SetBaseUrl(u)
    \/ Network

SpecClient == Init /\ [][NextClient]_vars

\* handleQuery driven directly: any query message, any editor
NextHost ==
    \/ CmdStart
    \/ \E m \in PostedMessages : PostsQuery(m)
    \/ \E ed \in HandledEditors : ReceiveQuery(ed)
    \/ Network

SpecHost == Init /\ [][NextHost]_vars

\* handleQuery against a backend that may answer off the schema
NextBackend ==
    \/ CmdStart
    \/ \E m \in PostedMessages : PostsQuery(m)
    \/ \E ed \in Editors : ReceiveQuery(ed)
    \/ Network
    \/ \E c \in calls, b \in OffSchemaBodies : OffSchemaBodyArrives(c, b)

SpecBackend == Init /\ [][NextBackend]_vars

\* a run that opens, tests and closes panels
InitPanels == Constructed(TRUE) /\ budget = MaxPanelActions

\* the life of the panels and their health checks
NextPanels ==
    \/ CmdStart
    \/ ClosePanel
    \/ Deactivate
    \/ ClickTestConnection
    \/ ReceiveTestConnection
    \/ WebviewReceives
    \/ Network

SpecPanels == InitPanels /\ [][NextPanels]_vars

\* what the event loops of the host and of the webview guarantee: a posted
\* message is handled, a timer that is armed fires. Nothing makes the network
\* or the user act.
Fairness ==
    /\ WF_vars(\E ed \in Editors : ReceiveQuery(ed))
    /\ WF_vars(ReceiveTestConnection)
    /\ WF_vars(HostTimerFires)
    /\ WF_vars(WebviewReceives)
    /\ WF_vars(WebviewTimerFires)
    /\ WF_vars(\E c \in calls : TimerFires(c))

SpecFair == Spec /\ Fairness

\* the panel protocol, keeping the records of tally
SpecObserved == InitObserved /\ [][Next]_vars

\* handleQuery taking the context window of documents of every length, with
\* the cursor on every line
NextWindow ==
    \/ CmdStart
    \/ PostsQuery(QueryMessage(<<"q">>, Explain))
    \/ \E ed \in WindowEditors : ReceiveQuery(ed)
    \/ Network

SpecWindow == Init /\ [][NextWindow]_vars

\* the webview with every one of its event handlers, reloads included, in a
\* panel that stays open
NextReload ==
    \/ CmdStart
    \/ \E ed \in Editors : CmdAnalyze(ed, FALSE)
    \/ \E ed \in Editors : ReceiveQuery(ed)
    \/ ReceiveTestConnection
    \/ HostTimerFires
    \/ \E v \in Inputs : TypeInput(v)
    \/ \E qt \in QueryTypes : SelectType(qt)
    \/ ClickSubmit
    \/ CtrlEnter
    \/ ClickClear
    \/ ClickTestConnection
    \/ WebviewReceives
    \/ WebviewTimerFires
    \/ ReloadWebview
    \/ Network

SpecReload == Init /\ [][NextReload]_vars

\* the webview between a submission and its answer, with Clear at any moment,
\* in a panel that stays open
NextClear ==
    \/ CmdStart
    \/ \E ed \in Editors : CmdAnalyze(ed, FALSE)
    \/ \E ed \in Editors : ReceiveQuery(ed)
    \/ HostTimerFires
    \/ \E v \in Inputs : TypeInput(v)
    \/ \E qt \in QueryTypes : SelectType(qt)
    \/ ClickSubmit
    \/ ClickClear
    \/ WebviewReceives
    \/ WebviewTimerFires
    \/ Network

SpecClear == Init /\ [][NextClear]_vars

(***************************************************************************)
(* Properties.                                                             *)
(***************************************************************************)
\* the step just taken settled a query call of handleQuery
QuerySettled == last.settled /\ last.owner = "handleQuery"

\* the step just taken settled a query call, whoever made it
ClientQuerySettled == last.settled /\ last.op = "query"

\* the exchange ended in a non-2xx response carrying an error payload
RejectedWithPayload ==
    /\ last.wire.kind = "response"
    /\ ~IsOk(last.wire.status)
    /\ last.wire.body.shape = "error"

\* C1: apiClient.query is invoked only while ConnectionState = connected,
\* whichever path leads to the call, and also when the state changed between
\* the webview's submit and the host's dispatch.
C1_QueryOnlyWhileConnected == last.dispatched => last.connAt = "connected"

\* C2: while a query is pending (isLoading = true) no second query message is
\* posted to the host, by the button, by Ctrl+Enter or by the delayed
\* auto-analyze submit.
C2_NoSubmitWhileLoading == last.submitted => ~last.loadingBefore

\* the exchange failed as a health check: timeout, network failure, a
\* connection broken in the body, non-2xx status or a body that is not JSON
HealthFailure(wire) ==
    \/ wire.kind \in {"timeout", "network", "cut"}
    \/ /\ wire.kind = "response"
       /\ (~IsOk(wire.status) \/ wire.body.shape = "raw")

\* C3: healthCheck never rejects; on every failure mode it returns an absent
\* result, and it returns a present result only on a 2xx answer.
C3_HealthCheckAbsentOnFailure ==
    last.settled /\ last.op = "health" =>
        /\ last.result.ok
        /\ (Present(last.result.value) =>
               last.wire.kind = "response" /\ IsOk(last.wire.status))
        /\ (HealthFailure(last.wire) => ~Present(last.result.value))

\* C4: no call remains in flight past the timeout it started with, the
\* reading of the response body included.
C4_NoCallPastTimeout == \A c \in calls : ~c.overdue

\* C5: a query call that times out fails with an error whose message includes
\* the configured timeout, and produces no QueryResponse.
C5_TimeoutNamesDuration ==
    ClientQuerySettled /\ last.wire.kind = "timeout" =>
        /\ ~last.result.ok
        /\ Includes(last.result.error.message, ToString(last.timeoutThen))

\* C6: a non-2xx answer to a query whose error payload contains a message is
\* published as an error event carrying exactly that message, which the
\* webview displays as it is: the container and its content are visible and
\* the loading indicator is hidden.
C6_ServerMessageShown ==
    /\ QuerySettled
    /\ RejectedWithPayload
    /\ Truthy(last.wire.body.message)
    /\ last.panelThen # 0
    => /\ last.event.type = "error"
       /\ last.event.error = last.wire.body.message
       /\ HandleError(wv, last.event).content.message = last.wire.body.message
       /\ HandleError(wv, last.event).responseContainer = "visible"
       /\ HandleError(wv, last.event).responseContent = "visible"
       /\ HandleError(wv, last.event).loadingIndicator = "hidden"

C6_Witness ==
    /\ QuerySettled
    /\ last.wire = Responded(500, [shape |-> "error", error |-> <<"x">>,
                                   message |-> <<"Server exploded">>])
    /\ last.event.type = "error"
    /\ last.event.error = <<"Server exploded">>

\* the message a failed query carries
FailureMessage == last.result.error.message

\* C7, as stated: a non-2xx answer whose payload has no message, or whose body
\* is not JSON, fails with "HTTP <status>: <statusText>" and with nothing else.
C7_GenericMessageOnly ==
    /\ ClientQuerySettled
    /\ last.wire.kind = "response"
    /\ ~IsOk(last.wire.status)
    /\ (last.wire.body.shape = "error" => ~Truthy(last.wire.body.message))
    => /\ ~last.result.ok
       /\ FailureMessage = HttpMessage(last.wire.status)

\* the step settled a call of the client that was answered with a non-2xx status
AnsweredNon2xx ==
    /\ last.settled
    /\ last.wire.kind = "response"
    /\ ~IsOk(last.wire.status)

\* the operation takes its failure message from the error payload: query and
\* ingest in both builds, getStatus in the axios build only
ReadsPayload == last.op \in {"query", "ingest"} \/ (build = "axios" /\ last.op = "status")

\* C7, amended: on a non-2xx answer query, ingest and getStatus fail, while
\* healthCheck resolves with null and testConnection with false. Where the
\* payload is read and has no message, the failure carries the payload's error
\* field when that is not empty and "HTTP <status>: <statusText>" when it is;
\* on a body that is not JSON the fetch build fails with "Failed to parse
\* error response" and the axios build with "HTTP <status>: <statusText>".
\* getStatus of the fetch build fails with "HTTP <status>: <statusText>"
\* whatever the payload.
C7_ErrorFieldThenGeneric ==
    AnsweredNon2xx =>
       /\ last.op \in {"query", "ingest", "status"} => ~last.result.ok
       /\ ReadsPayload /\ last.wire.body.shape = "error" /\ ~Truthy(last.wire.body.message) =>
              FailureMessage = (IF Truthy(last.wire.body.error)
                                THEN last.wire.body.error
                                ELSE HttpMessage(last.wire.status))
       /\ ReadsPayload /\ last.wire.body.shape = "raw" =>
              FailureMessage = (IF build = "fetch"
                                THEN <<"Failed to parse error response">>
                                ELSE HttpMessage(last.wire.status))
       /\ build = "fetch" /\ last.op = "status" =>
              FailureMessage = HttpMessage(last.wire.status)
       /\ last.op = "health" => last.result = Resolved(Null)
       /\ last.op = "connection" => last.result = Resolved(Boolean(FALSE))

C7_Witness ==
    /\ ClientQuerySettled
    /\ last.wire = Responded(500, [shape |-> "error", error |-> <<"x">>,
                                   message |-> Undefined])
    /\ FailureMessage = <<"x">>

\* the exchanges that fail a query: no response, a timeout, a connection
\* broken in the body, a non-2xx answer
FailedExchanges ==
    {NetworkFailure, TimedOut} \cup {BodyCut(s) : s \in Statuses}
    \cup {Responded(s, b) : s \in {x \in Statuses : ~IsOk(x)}, b \in ErrorBodies \cup {RawBody}}

\* C8: the failure kinds of a query are distinguishable by the caller: the
\* outcome of a failed query differs from the outcome of every failure of
\* another kind (no response, timeout, non-2xx answer).
C8_FailureKindsDistinct ==
    ClientQuerySettled /\ ~last.result.ok =>
        \A w \in FailedExchanges :
            w.kind # last.wire.kind => Query(build, timeout, w) # last.result

\* handleQuery's call failed: apiClient.query rejected, or its value is not a
\* QueryResponse with suggestions
QueryFailed == ~last.result.ok \/ SuggestionsOf(last.result.value) = UndefinedValue

\* the event is an error event with a message and, apart from it, the detail
IsErrorEvent(e) ==
    /\ e.type = "error"
    /\ Truthy(e.error)
    /\ Truthy(e.details)
    /\ e.details # e.error

QueriesInFlight == {c \in calls : c.owner = "handleQuery"}

\* C10: for each query message, apiClient.query is invoked at most once and
\* exactly one terminal event, a 'response' or an 'error', is published while
\* the panel exists; a failure is followed by no call of its own (no retry).
C10_OneCallOneEvent ==
    /\ tally.dispatched <= tally.received
    /\ tally.received = tally.published + tally.unpublished + Cardinality(QueriesInFlight)
    /\ QuerySettled =>
          /\ Cardinality(QueriesInFlight) < tally.dispatched
          /\ last.panelThen # 0 => last.event.type \in {"response", "error"}

C10_Witness ==
    /\ QuerySettled
    /\ ~last.result.ok
    /\ last.event.type = "error"
    /\ tally.received = 1
    /\ tally.published = 1
    /\ calls = {}

\* C11: every submitted query returns the panel to idle: once isLoading is
\* true, a response or an error arrives and isLoading becomes false again,
\* whatever the outcome of the query.
C11_LoadingEnds == wv.isLoading ~> ~wv.isLoading

\* the step just taken settled a health check of testBackendConnection
\* while a panel exists
HealthSettled ==
    last.settled /\ last.owner = "testBackendConnection" /\ last.panelThen # 0

\* a health result with ok semantics: a health payload reporting "healthy"
HealthOk(v) == v.shape = "health" /\ v.status = <<"healthy">>

\* the ConnectionState the webview is in once it has applied event e
StateAfter(e) == HandleConnectionStatus(wv, e).connectionStatus

\* C12: the result of a health check determines the next ConnectionState:
\* present with ok semantics gives connected and the reported version, absent
\* gives disconnected, an exception gives error with its message; a present
\* result without ok semantics never gives connected.
C12_HealthDecidesState ==
    HealthSettled =>
        /\ ~last.result.ok =>
              /\ StateAfter(last.event) = "error"
              /\ last.event.error = last.result.error.message
        /\ last.result.ok /\ ~Present(last.result.value) =>
              StateAfter(last.event) = "disconnected"
        /\ last.result.ok /\ Present(last.result.value) /\ HealthOk(last.result.value) =>
              /\ StateAfter(last.event) = "connected"
              /\ last.event.version = last.result.value.version
        /\ last.result.ok /\ Present(last.result.value) /\ ~HealthOk(last.result.value) =>
              StateAfter(last.event) # "connected"

\* the states a health check ends in
ResultStates == {"connected", "disconnected", "error"}

\* C13: ConnectionState enters connected, disconnected or error only from
\* testing: every health check, the one at panel creation included, puts the
\* state in testing before its result is applied.
C13_ResultOnlyFromTesting ==
    [][wv'.connectionStatus \in ResultStates /\ wv'.connectionStatus # wv.connectionStatus
          => wv.connectionStatus = "testing"]_vars

\* C14: an explicit test-connection request and a panel re-open (createOrShow
\* when a panel exists or existed) each move ConnectionState to testing and
\* start a health check: the request posts it, the re-open calls it.
C14_RecheckGoesToTesting ==
    [][/\ ClickTestConnection =>
             /\ wv'.connectionStatus = "testing"
             /\ w2h' = Append(w2h, TestConnectionMessage)
       /\ CmdStart /\ panels > 0 =>
             /\ wv'.connectionStatus = "testing"
             /\ started' = started + 1]_vars

\* C15: ConnectionState changes only by health checking (the test-connection
\* request, a connectionStatus event) or with the panel's webview being
\* discarded: a submit, a response, an error, Clear and auto-analyze leave it
\* as it is.
C15_OnlyHealthChecking ==
    [][wv'.connectionStatus # wv.connectionStatus =>
          \/ ClickTestConnection
          \/ WebviewReceives /\ Head(h2w).type = "connectionStatus"
          \/ ClosePanel]_vars

C15_Witness ==
    /\ wv.connectionStatus = "connected"
    /\ ~wv.isLoading
    /\ wv.content.kind = "error"
    /\ wv.content.details # Undefined
    /\ wv.currentQuery # <<>>

\* the step just taken was handleQuery receiving a message with an editor open
HandledWithEditor == last.received /\ last.editor.open

\* the event is the canned guidance with the given id, published as a response
IsGuidance(e, id) == e.type = "response" /\ e.queryId = id

\* C16: a query handled while no editor is open short-circuits: the canned
\* 'no code file open' guidance is published as a 'response' event with 1 or 2
\* suggestions and processingTime <= 5, and no Transport Client call is made.
C16_NoEditorShortCircuits ==
    last.received /\ ~last.editor.open =>
        /\ ~last.dispatched
        /\ tally.dispatched < tally.received
        /\ last.panelThen # 0 =>
              /\ IsGuidance(last.event, <<"no-editor">>)
              /\ Len(last.event.suggestions.items) \in 1..2
              /\ last.event.processingTime <= 5
              /\ h2w # <<>> /\ h2w[Len(h2w)] = last.event

C16_Witness ==
    /\ last.received
    /\ ~last.editor.open
    /\ last.event.type = "response"
    /\ Len(last.event.suggestions.items) = 2
    /\ calls = {}

\* what handleQuery takes as the code to analyze, from the editor it was given
HandledCode == CodeToAnalyze(last.editor)

\* C17, as stated: code-to-analyze shorter than 3 characters after the
\* fallback gives the canned 'no code selected' guidance and no call; 3
\* characters or more are dispatched.
C17_ShortCodeShortCircuits ==
    HandledWithEditor =>
        /\ TextLen(HandledCode) < 3 =>
              ~last.dispatched /\ IsGuidance(last.event, <<"no-code-selection">>)
        /\ TextLen(HandledCode) >= 3 => last.dispatched

\* C17, amended: the length is that of the code-to-analyze with leading and
\* trailing white space removed: fewer than 3 such characters give the canned
\* guidance and no call, 3 or more are dispatched, with the code untrimmed.
C17_ShortTrimmedCodeShortCircuits ==
    HandledWithEditor =>
        /\ TextLen(Trim(HandledCode)) < 3 =>
              /\ ~last.dispatched
              /\ tally.dispatched < tally.received
              /\ IsGuidance(last.event, <<"no-code-selection">>)
        /\ TextLen(Trim(HandledCode)) >= 3 =>
              /\ last.dispatched
              /\ last.request.code_context.selected_code = HandledCode

C17_Witness ==
    /\ HandledWithEditor
    /\ HandledCode = Padded("z", 2)
    /\ ~last.dispatched
    /\ last.event.type = "response"
    /\ last.event.queryId = <<"no-code-selection">>

\* the code a dispatched request carries
SentCode == last.request.code_context.selected_code

\* the lines from two above the cursor to two below it, within the document
WindowAroundCursor ==
    JoinLines(last.editor.lines, Max(0, last.editor.cursor - 2),
              Min(Len(last.editor.lines) - 1, last.editor.cursor + 2))

\* C18, as stated: the fallback to the context window is applied exactly when
\* the selection is shorter than 5 characters; a selection of 5 or more
\* characters is the code-to-analyze, unchanged.
C18_FallbackBelowFive ==
    HandledWithEditor /\ last.dispatched =>
        SentCode = (IF TextLen(last.editor.selected) < 5
                    THEN WindowAroundCursor ELSE last.editor.selected)

\* C18, amended: the fallback is applied exactly when the selection has fewer
\* than 5 characters once leading and trailing white space is removed; a
\* selection with 5 or more such characters is used unchanged, untrimmed.
C18_FallbackBelowFiveTrimmed ==
    HandledWithEditor /\ last.dispatched =>
        SentCode = (IF TextLen(Trim(last.editor.selected)) < 5
                    THEN WindowAroundCursor ELSE last.editor.selected)

C18_Witness ==
    /\ HandledWithEditor
    /\ last.dispatched
    /\ last.editor.selected = Padded("x", 3)
    /\ SentCode = Padded("x", 3) \o Newline \o Chars("b", 4)

\* the full_file_content a dispatched request carries
SentContent == last.request.code_context.full_file_content

\* C19: full_file_content is present exactly when the file content is at most
\* 10,000 characters long, and then equals the whole content; longer content
\* is omitted, never truncated.
C19_ContentUpToLimit ==
    HandledWithEditor /\ last.dispatched =>
        SentContent = (IF TextLen(FullContent(last.editor)) <= 10000
                       THEN FullContent(last.editor) ELSE UndefinedText)

\* no query type: the field is left out, or is the empty string
NoType(t) == t = Undefined \/ t = <<>>

\* the query type handleQuery is to use for the message it received
ExpectedType == IF NoType(last.message.queryType) THEN <<"explain">> ELSE last.message.queryType

\* C20: without a query type in the message the dispatched request has
\* query_type = explain and the canned guidance echoes queryType = explain; a
\* type that is given is used unchanged.
C20_TypeDefaultsToExplain ==
    last.received =>
        /\ last.dispatched => last.request.query_type = ExpectedType
        /\ ~last.dispatched /\ last.panelThen # 0 =>
              last.event.type = "response" /\ last.event.queryType = ExpectedType

C20_Witness ==
    /\ last.received
    /\ last.message.queryType = Undefined
    /\ last.dispatched
    /\ last.request.query_type = <<"explain">>

\* a confidence, in hundredths, within [0,1]
InUnitInterval(c) == c >= 0 /\ c <= 100

\* the step just taken published a 'response' event
ResponsePublished == last.event.type = "response"

\* C21: every 'response' event published to the webview has an overall
\* confidence and per-suggestion confidences within [0,1], whatever values the
\* backend returned.
C21_ConfidenceClamped ==
    ResponsePublished =>
        /\ InUnitInterval(last.event.confidence)
        /\ \A i \in 1..Len(last.event.suggestions.items) :
              InUnitInterval(last.event.suggestions.items[i].confidence)

\* C22: in every 'response' event published to the webview the suggestions
\* and the code examples are present as sequences, possibly empty, also when
\* the backend's response leaves either field out.
C22_SequencesPresent ==
    ResponsePublished =>
        /\ last.event.suggestions # UndefinedValue
        /\ last.event.codeExamples # UndefinedValue

\* C23: for every query that produces a 'response' event, the query type
\* echoed in the response equals the query_type of the request that was sent
\* for it.
C23_TypeEchoed ==
    QuerySettled /\ ResponsePublished => last.event.queryType = last.request.query_type

\* the handlers of handleWebviewMessage suspended at their network call
SuspendedHandlers == {c \in calls : c.onMessage}

\* the step is handleWebviewMessage starting on the next message of the webview
HandlerStarts == w2h # <<>> /\ w2h' = Tail(w2h) /\ panel' = panel

\* C24: on the host each webview message is handled to completion before the
\* handler of the next message starts: no handler starts while a query handler
\* or a testConnection handler is suspended at its network call.
C24_OneHandlerAtATime == [][HandlerStarts => SuspendedHandlers = {}]_vars

\* every query message posted so far has been handled and its event, if any,
\* received by the webview
AllQueriesCompleted ==
    /\ QueriesInFlight = {}
    /\ \A i \in 1..Len(w2h) : w2h[i].type # "query"
    /\ \A i \in 1..Len(h2w) : h2w[i].type \notin {"response", "error"}

\* the webview receives an 'error' event
ErrorReceived == h2w # <<>> /\ Head(h2w).type = "error" /\ WebviewReceives

\* C25: once all submitted queries have completed, the response held as
\* lastResponse is the response to the most recently submitted query that has
\* one, never the response to an earlier one; an error event leaves
\* lastResponse unchanged.
C25_LatestResponseHeld ==
    /\ [](AllQueriesCompleted /\ wv.lastResponse # NoResponse =>
              wv.lastResponse = tally.newest.event)
    /\ [][ErrorReceived => wv'.lastResponse = wv.lastResponse]_vars

\* the webview receives the terminal event of a query
TerminalReceived ==
    h2w # <<>> /\ Head(h2w).type \in {"response", "error"} /\ WebviewReceives

\* C26: there is no user-initiated cancellation. Clear resets the query text,
\* the query type and lastResponse, leaves isLoading as it is and cancels no
\* call in flight; the response or error of a pending query is still handled
\* when it arrives: it ends the loading state, and a response becomes
\* lastResponse.
C26_ClearCancelsNothing ==
    [][/\ ClickClear =>
             /\ wv'.input = <<>> /\ wv'.currentQuery = <<>>
             /\ wv'.select = Explain /\ wv'.currentQueryType = Explain
             /\ wv'.lastResponse = NoResponse
             /\ wv'.isLoading = wv.isLoading
             /\ calls' = calls /\ w2h' = w2h /\ h2w' = h2w
       /\ TerminalReceived =>
             /\ ~wv'.isLoading
             /\ Head(h2w).type = "response" => wv'.lastResponse = Head(h2w)]_vars

\* Clear was clicked while a query was pending, and the query's response was
\* handled afterwards
C26_Witness ==
    /\ wv.currentQuery = <<>>
    /\ wv.lastResponse # NoResponse
    /\ wv.lastResponse.queryId = <<"q-1">>
    /\ ~wv.isLoading
    /\ tally.dispatched = 1

\* the user has done nothing but run analyze commands: a query message was
\* then posted by the delayed submit of handleAutoAnalyze
OnlyAnalyzed == acted = analyzed

\* C27: the analyze commands analyze what they captured: the request sent for
\* the query an analyze command auto-submitted carries as selected_code the
\* text the command captured, also when the editor, the selection or the focus
\* changed before the delayed submit is handled.
C27_AnalyzesWhatWasCaptured ==
    last.received /\ last.dispatched /\ last.captured # UndefinedText /\ OnlyAnalyzed =>
        last.request.code_context.selected_code = last.captured

\* the step is a call of one of the client's setters
SetterCalled ==
    \/ \E t \in {DefaultTimeout, ShortTimeout} : SetTimeout(t)
    \/ \E u \in BaseUrls : SetBaseUrl(u)

\* C28: the Transport Client's state is its base URL and its timeout, and only
\* the setters change it: query, ingest, healthCheck, getStatus and
\* testConnection leave both as they are, whether they succeed or fail.
C28_OnlySettersChangeClient ==
    [][/\ (baseUrl' # baseUrl \/ timeout' # timeout) => SetterCalled
       /\ last'.settled => baseUrl' = baseUrl /\ timeout' = timeout]_vars

\* getStatus failed with the base URL that was set before it was called
C28_Witness ==
    /\ last.settled
    /\ last.op = "status"
    /\ ~last.result.ok
    /\ baseUrl = "http://backend:9000"
    /\ timeout = DefaultTimeout

\* every health check started for the panel has completed and the webview
\* has received its status
AllChecksCompleted ==
    /\ \A c \in calls : c.owner # "testBackendConnection"
    /\ \A i \in 1..Len(w2h) : w2h[i].type # "testConnection"
    /\ \A i \in 1..Len(h2w) : h2w[i].type # "connectionStatus"

\* C29: when health checks overlap, the ConnectionState after all of them have
\* completed is the result of the most recently started check: the result of
\* an older check never overwrites that of a newer one. Stated for the first
\* panel, where every check was started for the panel that shows its result.
C29_NewestCheckDecides ==
    panel # 0 /\ panels = 1 /\ AllChecksCompleted /\ tally.health.id # 0 =>
        wv.connectionStatus = tally.health.status

\* C30: a response, error or connection-status event is delivered only to the
\* panel whose webview issued the request: an event published when a call
\* settles goes to the panel that existed when the call was made, and to no
\* panel created since.
C30_EventToIssuingPanel ==
    last.settled /\ last.event # NoEvent => last.panelThen = last.panelAt

\* C31: every requested health check is eventually resolved: once a Test
\* Connection request has put ConnectionState in testing, the state becomes
\* connected, disconnected or error, whatever the backend does, for as long
\* as the panel is there.
C31_TestingEnds ==
    wv.connectionStatus = "testing" ~> (wv.connectionStatus \in ResultStates \/ panel = 0)

\* C32: a selection that, trimmed, has at least 3 characters is never
\* rejected as 'no code selected': handleQuery dispatches a request for it,
\* wherever the cursor is and whatever the surrounding lines contain.
C32_SelectionOfThreeDispatched ==
    HandledWithEditor /\ TextLen(Trim(last.editor.selected)) >= 3 =>
        /\ last.dispatched
        /\ ~IsGuidance(last.event, <<"no-code-selection">>)

\* the step just taken was handleQuery falling back to the context window
FellBack == HandledWithEditor /\ NeedsFallback(last.editor.selected)

\* C33: when the fallback applies, the code-to-analyze is exactly the text of
\* lines max(0, c-2) through min(lineCount-1, c+2), c being the cursor line:
\* the window lies inside the document, contains the cursor line and spans at
\* most 5 lines, for every cursor position and document of at least one line.
C33_WindowAroundCursor ==
    FellBack =>
        /\ 0 <= StartLine(last.editor)
        /\ StartLine(last.editor) <= last.editor.cursor
        /\ last.editor.cursor <= EndLine(last.editor)
        /\ EndLine(last.editor) <= Len(last.editor.lines) - 1
        /\ EndLine(last.editor) - StartLine(last.editor) + 1 <= 5
        /\ HandledCode = WindowAroundCursor
        /\ last.dispatched => SentCode = WindowAroundCursor

\* a window of five lines cut out of the middle of a longer document was sent
C33_Witness ==
    /\ FellBack
    /\ last.dispatched
    /\ Len(last.editor.lines) = 7
    /\ last.editor.cursor = 3
    /\ SentCode = JoinLines(last.editor.lines, 1, 5)
    /\ TextLen(SentCode) = 34

\* C34: after every webview event handler completes, the submit button is
\* enabled exactly when the query text is non-empty (trimmed), isLoading is
\* false and ConnectionState = connected.
C34_SubmitEnabledExactly ==
    panel # 0 =>
        (~wv.submitDisabled <=>
            /\ TrimStr(wv.input) # <<>>
            /\ ~wv.isLoading
            /\ wv.connectionStatus = "connected")

\* the button is enabled: a query is typed, nothing is loading, the backend
\* is connected
C34_Witness ==
    /\ panel # 0
    /\ ~wv.submitDisabled
    /\ TrimStr(wv.input) = <<"q">>
    /\ wv.connectionStatus = "connected"
    /\ ~wv.isLoading

\* C36: persisted webview state round-trips: after updateState followed by
\* restoreState in a reloaded webview, currentQuery, currentQueryType,
\* lastResponse, isLoading and connectionStatus equal the values saved.
C36_StateRoundTrips ==
    [][ReloadWebview /\ "query" \in DOMAIN saved =>
          /\ wv'.currentQuery = saved.query
          /\ wv'.currentQueryType = saved.queryType
          /\ wv'.lastResponse = saved.lastResponse
          /\ wv'.isLoading = saved.isLoading
          /\ wv'.connectionStatus = saved.connectionStatus]_vars

\* C35: the ConnectionState value error is never reached through a health
\* check: healthCheck turns every failure into an absent result, so
\* testBackendConnection only ever reports connected or disconnected.
C35_HealthNeverError ==
    /\ wv.connectionStatus # "error"
    /\ HealthSettled =>
          /\ last.result.ok
          /\ last.event.status \in {"connected", "disconnected"}

\* a health check ran into its timeout and reported disconnected
C35_Witness ==
    /\ HealthSettled
    /\ last.wire = TimedOut
    /\ last.result = Resolved(Null)
    /\ last.event.status = "disconnected"

\* C37: the provider holds at most one panel: createOrShow on an existing
\* panel only reveals it and creates nothing; once the panel is closed or
\* dispose is called the panel reference is cleared and every registered
\* disposable is disposed, and the next createOrShow creates exactly one new
\* panel; dispose terminates although disposing the panel re-enters it (one
\* call of dispose when the panel is closed, two when dispose is called).
C37_AtMostOnePanel ==
    /\ [](/\ platform.live = (IF panel # 0 THEN {panel} ELSE {})
          /\ platform.listeners = {disposables[i] : i \in 1..Len(disposables)}
          /\ panel = 0 => disposables = <<>>
          /\ panel # 0 => Len(disposables) = 2
          /\ last.disposeCalls <= 2)
    /\ [][/\ CmdStart /\ panel # 0 => panel' = panel /\ panels' = panels /\ platform' = platform
          /\ CmdStart /\ panel = 0 => panels' = panels + 1 /\ platform'.live = {panels'}
          /\ ClosePanel \/ Deactivate => panel' = 0 /\ platform'.listeners = {}]_vars

\* dispose was called on an open panel and was entered a second time by the
\* panel's onDidDispose: the panel and the listeners of the first panel
\* created are gone
C37_Witness ==
    /\ last.disposeCalls = 2
    /\ panels = 1
    /\ panel = 0
    /\ platform = [live |-> {}, listeners |-> {}]
    /\ disposables = <<>>
====
